---- MODULE Spec2Model ----
(***************************************************************************)
(* Crowd Monitor: the capacity estimator and the alert classifier of       *)
(* utils.py, and the Streamlit script of app.py that feeds one into the    *)
(* other over the frames of an uploaded video.                             *)
(*                                                                         *)
(* Numbers.  Python computes area * density and (count / max) * 100 in     *)
(* binary floating point.  The model computes them as exact fractions      *)
(* [num, den].  For integer areas int(area * 0.4) and int(area * 0.67)     *)
(* equal the truncated exact products (the doubles nearest 0.4 and 0.67    *)
(* lie just above them, so a product never falls below an integer it       *)
(* should reach).  For the percentage the fraction is the value the        *)
(* double approximates to within rounding; order and the values 0 and 100  *)
(* are preserved by the rounding.                                          *)
(***************************************************************************)
EXTENDS Integers, Sequences, FiniteSets, TLC

(***************************************************************************)
(* Bounds of the model.                                                    *)
(***************************************************************************)
MaxEstArea == 60      \* largest positive area handed to the estimator
MaxNegArea == 10      \* areas down to -MaxNegArea are handed to it too
MaxCount == 4         \* counts 0..MaxCount handed to the classifier
MaxCap == 3           \* capacities 0..MaxCap handed to the classifier
MaxFrames == 4        \* longest uploaded video, in frames
MaxPeople == 34       \* most people the detector reports in a frame
MaxAreaSteps == 2     \* the widget offers 50, 100, .. 50 * MaxAreaSteps

(***************************************************************************)
(* config.py                                                               *)
(***************************************************************************)
SAFE_DENSITY == [num |-> 4, den |-> 10]
MAX_DENSITY == [num |-> 67, den |-> 100]
PERSON_CLASS_ID == 0
DEFAULT_VENUE_AREA == 500
COLOR_SAFE == <<76, 175, 80>>
COLOR_WARNING == <<255, 152, 0>>
COLOR_CRITICAL == <<244, 67, 54>>

\* Python's None.  A value that may be None is None or a record; a number
\* that may be None is None or Some(number).
None == <<>>
Some(x) == <<x>>

(***************************************************************************)
(* Arithmetic of the Python expressions, on exact fractions.               *)
(***************************************************************************)
\* x * y for an integer x and a fractional constant y
Times(x, y) == [num |-> x * y.num, den |-> y.den]

\* x / y, Python's true division of two integers (y > 0)
TrueDiv(x, y) == [num |-> x, den |-> y]

\* q * k for a fraction q and an integer k
Scale(q, k) == [num |-> q.num * k, den |-> q.den]

\* the integer literal 0 as a fraction
Zero == [num |-> 0, den |-> 1]

\* comparison of two fractions with positive denominators
RatEq(p, q) == p.num * q.den = q.num * p.den
RatLeq(p, q) == p.num * q.den <= q.num * p.den

\* a mis-conversion: rounds to the nearest integer instead of truncating
IntRound(q) ==
  IF q.num >= 0 THEN (2 * q.num + q.den) \div (2 * q.den)
  ELSE -((2 * (-q.num) + q.den) \div (2 * q.den))

\* int(q): truncation toward zero
PyInt(q) ==
  IF q.num >= 0 THEN q.num \div q.den ELSE -((-q.num) \div q.den)

(***************************************************************************)
(* utils.py: estimate_venue_capacity                                       *)
(***************************************************************************)
\* a slip in the guard: only a missing area is replaced by the default
SubstituteAreaNoneOnly(area_sqm) ==
  IF area_sqm = None THEN DEFAULT_VENUE_AREA ELSE area_sqm[1]

\* lines 25-26: a missing or non-positive area becomes the default area
SubstituteArea(area_sqm) ==
  IF area_sqm = None THEN DEFAULT_VENUE_AREA
  ELSE IF area_sqm[1] <= 0 THEN DEFAULT_VENUE_AREA
  ELSE area_sqm[1]

\* a slip in the densities: the two constants swapped
estimate_venue_capacity_swapped(area_sqm) ==
  LET a == SubstituteArea(area_sqm)
  IN [area |-> a,
      safe_capacity |-> PyInt(Times(a, MAX_DENSITY)),
      max_capacity |-> PyInt(Times(a, SAFE_DENSITY))]

estimate_venue_capacity(area_sqm) ==
  LET a == SubstituteArea(area_sqm)
  IN [area |-> a,
      safe_capacity |-> PyInt(Times(a, SAFE_DENSITY)),
      max_capacity |-> PyInt(Times(a, MAX_DENSITY))]

(***************************************************************************)
(* utils.py: count_people_in_frame.  The detector is external: a frame is  *)
(* given by what the detector does on it: it raises (anything in the try   *)
(* block does), or it reports a number of boxes per class id.              *)
(***************************************************************************)
MaxOtherClass == 1    \* class ids 0..MaxOtherClass are reported
MaxOtherBoxes == 1    \* boxes of a class other than PERSON_CLASS_ID

ClassIds == 0..MaxOtherClass

Boxes(p, o) == [c \in ClassIds |-> IF c = PERSON_CLASS_ID THEN p ELSE o]

Frames ==
  {[raises |-> TRUE, boxes |-> Boxes(0, 0)]} \cup
  {[raises |-> FALSE, boxes |-> Boxes(p, o)] :
     p \in 0..MaxPeople, o \in 0..MaxOtherBoxes}

\* a slip in the handler: the failure is reported as a negative count
count_people_in_frame_negative(model, frame) ==
  IF frame.raises THEN -1 ELSE frame.boxes[PERSON_CLASS_ID]

\* lines 40-65: the boxes of class PERSON_CLASS_ID are counted; any
\* exception is caught and 0 is returned
count_people_in_frame(model, frame) ==
  IF frame.raises THEN 0 ELSE frame.boxes[PERSON_CLASS_ID]

(***************************************************************************)
(* State.                                                                  *)
(***************************************************************************)
VARIABLES
  model,                \* app.py:22  the cached detection model, or None
  area,                 \* app.py:41  value of the number_input widget
  capacity,             \* app.py:30  st.session_state.capacity
  capacity_calculated,  \* app.py:33  st.session_state.capacity_calculated
  video_file,           \* app.py:75  None, or the uploaded file
  show_boxes,           \* app.py:80  the checkbox
  pc,                   \* where the current script run stands
  total_frames,         \* app.py:113
  frame_count,          \* app.py:114
  safe,                 \* app.py:116
  max_cap,              \* app.py:117
  count,                \* app.py:129
  alert,                \* app.py:130
  shown,                \* what the placeholders display
  detection,            \* how the detector fared on each evaluated frame of the run
  last_call,            \* arguments of the last get_alert_status call of the run
  est_area,             \* argument handed to estimate_venue_capacity
  est_result,           \* what it returned, None before the call
  call_args,            \* arguments handed to get_alert_status
  call_result,          \* what the last call returned, None before the first
  marked                \* one earlier call, kept for comparison

vars ==
  <<model, area, capacity, capacity_calculated, video_file, show_boxes, pc,
    total_frames, frame_count, safe, max_cap, count, alert, shown, detection,
    last_call, est_area, est_result, call_args, call_result, marked>>

appVars ==
  <<model, area, capacity, capacity_calculated, video_file, show_boxes, pc,
    total_frames, frame_count, safe, max_cap, count, alert, shown, detection,
    last_call>>

estVars == <<est_area, est_result>>

callVars == <<call_args, call_result, marked>>

(***************************************************************************)
(* utils.py: get_alert_status                                              *)
(***************************************************************************)
RecommendationsCritical ==
  <<"Stop all entries immediately", "Activate emergency protocols",
    "Deploy security personnel", "Open emergency exits",
    "Alert emergency services">>

RecommendationsWarning ==
  <<"Reduce entry rate", "Increase monitoring", "Prepare dispersal plan",
    "Alert security team", "Monitor crowd flow">>

RecommendationsSafe == <<"Continue monitoring", "Maintain regular checks">>

\* a slip: the percentage never exceeds 100
PercentageCapped(current_count, safe_capacity, max_capacity) ==
  IF max_capacity > 0
  THEN IF current_count >= max_capacity
       THEN Scale(TrueDiv(1, 1), 100)
       ELSE Scale(TrueDiv(current_count, max_capacity), 100)
  ELSE Zero

\* line 70
Percentage(current_count, safe_capacity, max_capacity) ==
  IF max_capacity > 0
  THEN Scale(TrueDiv(current_count, max_capacity), 100)
  ELSE Zero

\* lines 73-87
CriticalAlert(percentage) ==
  [status |-> "CRITICAL", status_emoji |-> "siren", color |-> "critical",
   color_bgr |-> COLOR_CRITICAL, percentage |-> percentage,
   message |-> "Overcrowding Detected",
   recommendations |-> RecommendationsCritical]

\* lines 90-104
WarningAlert(percentage) ==
  [status |-> "WARNING", status_emoji |-> "warning sign", color |-> "warning",
   color_bgr |-> COLOR_WARNING, percentage |-> percentage,
   message |-> "Approaching Capacity",
   recommendations |-> RecommendationsWarning]

\* lines 107-118
SafeAlert(percentage) ==
  [status |-> "SAFE", status_emoji |-> "check mark", color |-> "safe",
   color_bgr |-> COLOR_SAFE, percentage |-> percentage,
   message |-> "Normal Operations",
   recommendations |-> RecommendationsSafe]

\* a slip: the WARNING rung is tested before the CRITICAL rung
get_alert_status_warning_first(current_count, safe_capacity, max_capacity) ==
  LET percentage == Percentage(current_count, safe_capacity, max_capacity)
  IN IF current_count >= safe_capacity THEN WarningAlert(percentage)
     ELSE IF current_count >= max_capacity THEN CriticalAlert(percentage)
     ELSE SafeAlert(percentage)

\* a slip: the CRITICAL threshold is exclusive
get_alert_status_exclusive(current_count, safe_capacity, max_capacity) ==
  LET percentage == Percentage(current_count, safe_capacity, max_capacity)
  IN IF current_count > max_capacity THEN CriticalAlert(percentage)
     ELSE IF current_count >= safe_capacity THEN WarningAlert(percentage)
     ELSE SafeAlert(percentage)

\* a slip: the WARNING branch reports the percentage of the safe capacity
get_alert_status_warning_of_safe(current_count, safe_capacity, max_capacity) ==
  LET percentage == Percentage(current_count, safe_capacity, max_capacity)
  IN IF current_count >= max_capacity THEN CriticalAlert(percentage)
     ELSE IF current_count >= safe_capacity
          THEN WarningAlert(Percentage(current_count, max_capacity,
                                       safe_capacity))
     ELSE SafeAlert(percentage)

\* a debounced classifier: once WARNING was returned, a count one below the
\* safe capacity is still reported as WARNING
get_alert_status_sticky(current_count, safe_capacity, max_capacity) ==
  LET percentage == Percentage(current_count, safe_capacity, max_capacity)
  IN IF current_count >= max_capacity THEN CriticalAlert(percentage)
     ELSE IF current_count >= safe_capacity THEN WarningAlert(percentage)
     ELSE IF /\ call_result # None
             /\ call_result.status = "WARNING"
             /\ current_count >= safe_capacity - 1
          THEN WarningAlert(percentage)
     ELSE SafeAlert(percentage)

\* lines 68-118
get_alert_status(current_count, safe_capacity, max_capacity) ==
  LET percentage == Percentage(current_count, safe_capacity, max_capacity)
  IN IF current_count >= max_capacity THEN CriticalAlert(percentage)
     ELSE IF current_count >= safe_capacity THEN WarningAlert(percentage)
     ELSE SafeAlert(percentage)

\* the ordering SAFE < WARNING < CRITICAL
Rank(status) ==
  CASE status = "SAFE" -> 0
    [] status = "WARNING" -> 1
    [] status = "CRITICAL" -> 2

(***************************************************************************)
(* app.py: the Streamlit script.  Every interaction with a widget stops    *)
(* the script run in progress and runs the script again from the top; the  *)
(* session state and the widget values survive, the locals do not.  A run  *)
(* up to the frame loop is one step; each pass of the loop is one step.    *)
(***************************************************************************)
YoloModel == [name |-> "yolov8s.pt"]

\* line 41: number_input(min_value=50, value=500, step=50)
MinArea == 50
AreaStep == 50
InitialArea == 500

AreaChoices ==
  {MinArea + k * AreaStep : k \in 0..(MaxAreaSteps - 1)} \cup {InitialArea}

Videos == {[frames |-> n] : n \in 0..MaxFrames}

NothingShown ==
  [success |-> FALSE, count |-> 0, status |-> "", alert_box |-> "",
   message |-> "", rec_box |-> <<>>, progress |-> None, complete |-> FALSE]

\* lines 28-33 after lines 21-26
AppInit ==
  /\ model \in {YoloModel, None}
  /\ area = InitialArea
  /\ capacity = None
  /\ capacity_calculated = FALSE
  /\ video_file = None
  /\ show_boxes = FALSE
  /\ pc = IF model = None THEN "stopped" ELSE "idle"
  /\ total_frames = 0
  /\ frame_count = 0
  /\ safe = 0
  /\ max_cap = 0
  /\ count = 0
  /\ alert = None
  /\ shown = NothingShown
  /\ detection = <<>>
  /\ last_call = None

\* lines 28-117 of one script run: a is the value of the number_input,
\* clicked tells whether the button was pressed, v and sb are the values of
\* the file_uploader and of the checkbox
Rerun(a, clicked, v, sb) ==
  LET cap == IF clicked THEN estimate_venue_capacity(Some(a)) ELSE capacity
      calculated == IF clicked THEN TRUE ELSE capacity_calculated
      processing == cap # None /\ v # None
  IN /\ area' = a
     /\ capacity' = cap
     /\ capacity_calculated' = IF cap # None THEN FALSE ELSE calculated
     /\ video_file' = v
     /\ show_boxes' = sb
     /\ pc' = IF processing THEN "loop" ELSE "idle"
     /\ total_frames' = IF processing THEN v.frames ELSE 0
     /\ frame_count' = 0
     /\ safe' = IF processing THEN cap.safe_capacity ELSE 0
     /\ max_cap' = IF processing THEN cap.max_capacity ELSE 0
     /\ count' = 0
     /\ alert' = None
     /\ shown' = [NothingShown EXCEPT
                    !.success = (cap # None /\ calculated),
                    !.progress = IF processing THEN Some(0) ELSE None]
     /\ detection' = <<>>
     /\ last_call' = None
     /\ UNCHANGED <<model, estVars, callVars>>

\* the user edits the number_input
SetArea ==
  /\ pc # "stopped"
  /\ \E a \in AreaChoices \ {area} :
       Rerun(a, FALSE, video_file, show_boxes)

\* lines 46-48: the user presses "Calculate Capacity"
ClickCalculate ==
  /\ pc # "stopped"
  /\ Rerun(area, TRUE, video_file, show_boxes)

\* line 75: the user uploads a video; the uploader exists once a capacity is
\* stored (line 52)
UploadVideo ==
  /\ pc # "stopped"
  /\ capacity # None
  /\ \E v \in Videos \ {video_file} :
       Rerun(area, FALSE, v, show_boxes)

\* line 75: the user removes the uploaded video
RemoveVideo ==
  /\ pc # "stopped"
  /\ video_file # None
  /\ Rerun(area, FALSE, None, show_boxes)

\* line 80: the user ticks or unticks "Show detections"
ToggleShowBoxes ==
  /\ pc # "stopped"
  /\ capacity # None
  /\ Rerun(area, FALSE, video_file, ~show_boxes)

\* lines 119-122 and 173-175: cap.read() finds no further frame
EndOfVideo ==
  /\ pc = "loop"
  /\ frame_count = total_frames
  /\ pc' = "complete"
  /\ shown' = [shown EXCEPT !.progress = None, !.complete = TRUE]
  /\ UNCHANGED <<model, area, capacity, capacity_calculated, video_file,
                 show_boxes, total_frames, frame_count, safe, max_cap, count,
                 alert, detection, last_call, estVars, callVars>>

\* lines 119-126: an odd-numbered frame is read and skipped
SkipFrame ==
  /\ pc = "loop"
  /\ frame_count < total_frames
  /\ (frame_count + 1) % 2 # 0
  /\ frame_count' = frame_count + 1
  /\ UNCHANGED <<model, area, capacity, capacity_calculated, video_file,
                 show_boxes, pc, total_frames, safe, max_cap, count, alert,
                 shown, detection, last_call, estVars, callVars>>

\* lines 159-165: at most three recommendations, none when SAFE
RecBox(a) ==
  IF a.status # "SAFE" THEN SubSeq(a.recommendations, 1, 3) ELSE <<>>

\* lines 151-156
AlertBox(a) ==
  IF a.status = "CRITICAL" THEN "error"
  ELSE IF a.status = "WARNING" THEN "warning"
  ELSE "success"

\* lines 128-171 for one frame, classified against the thresholds s and m;
\* lines 132-148 draw the frame (draw_detections catches its own errors and
\* returns the frame) and change no state
EvaluateFrame(frame, s, m) ==
  LET c == count_people_in_frame(model, frame)
      a == get_alert_status(c, s, m)
      n == frame_count + 1
      prog == PyInt(Scale(TrueDiv(n, total_frames), 100))
  IN /\ frame_count' = n
     /\ count' = c
     /\ alert' = a
     /\ detection' = Append(detection,
                             IF frame.raises THEN "failed" ELSE "ok")
     /\ last_call' = [current_count |-> c, safe_capacity |-> s,
                      max_capacity |-> m]
     /\ shown' = [shown EXCEPT
                    !.count = c,
                    !.status = a.status,
                    !.alert_box = AlertBox(a),
                    !.message = a.message,
                    !.rec_box = RecBox(a),
                    !.progress = Some(IF prog < 100 THEN prog ELSE 100)]
     /\ UNCHANGED <<model, area, capacity, capacity_calculated, video_file,
                    show_boxes, pc, total_frames, safe, max_cap, estVars,
                    callVars>>

\* a slip: the thresholds are recomputed from the widget for every frame
ProcessFrameFromWidget ==
  /\ pc = "loop"
  /\ frame_count < total_frames
  /\ (frame_count + 1) % 2 = 0
  /\ \E frame \in Frames :
       EvaluateFrame(frame,
                     estimate_venue_capacity(Some(area)).safe_capacity,
                     estimate_venue_capacity(Some(area)).max_capacity)

\* lines 119-171: an even-numbered frame is read and evaluated against the
\* thresholds read at lines 116-117
ProcessFrame ==
  /\ pc = "loop"
  /\ frame_count < total_frames
  /\ (frame_count + 1) % 2 = 0
  /\ \E frame \in Frames : EvaluateFrame(frame, safe, max_cap)

(***************************************************************************)
(* Calls of the two functions of utils.py on arguments of their own.       *)
(***************************************************************************)
EstimateIdle == est_area = None /\ est_result = None

CallsIdle ==
  /\ call_args = [current_count |-> 0, safe_capacity |-> 0, max_capacity |-> 0]
  /\ call_result = None
  /\ marked = None

\* the script is not running
AppOff ==
  /\ model = None
  /\ area = InitialArea
  /\ capacity = None
  /\ capacity_calculated = FALSE
  /\ video_file = None
  /\ show_boxes = FALSE
  /\ pc = "stopped"
  /\ total_frames = 0
  /\ frame_count = 0
  /\ safe = 0
  /\ max_cap = 0
  /\ count = 0
  /\ alert = None
  /\ shown = NothingShown
  /\ detection = <<>>
  /\ last_call = None

\* the areas handed to estimate_venue_capacity: no area, negative areas,
\* zero, positive areas and the default area
EstAreas ==
  {None} \cup {Some(a) : a \in (-MaxNegArea)..MaxEstArea}
         \cup {Some(DEFAULT_VENUE_AREA)}

CallEstimate ==
  /\ est_result = None
  /\ est_result' = estimate_venue_capacity(est_area)
  /\ UNCHANGED <<est_area, appVars, callVars>>

\* the arguments handed to get_alert_status: every small triple, ordered or
\* not, and the triples of the documented examples
ExampleArgs ==
  {[current_count |-> c, safe_capacity |-> 200, max_capacity |-> 335] :
     c \in {100, 250, 335, 400}}

AlertArgs ==
  {[current_count |-> c, safe_capacity |-> s, max_capacity |-> m] :
     c \in 0..MaxCount, s \in 0..MaxCap, m \in 0..MaxCap}
  \cup ExampleArgs

Apply(args) ==
  get_alert_status(args.current_count, args.safe_capacity, args.max_capacity)

\* the first call
FirstCall ==
  /\ call_result = None
  /\ call_result' = Apply(call_args)
  /\ UNCHANGED <<call_args, marked, appVars, estVars>>

\* a further call; the call before it may be kept for later comparison
NextCall ==
  /\ call_result # None
  /\ \E args \in AlertArgs :
       /\ call_args' = args
       /\ call_result' = Apply(args)
  /\ \/ marked' = marked
     \/ marked' = [args |-> call_args, result |-> call_result]
  /\ UNCHANGED <<appVars, estVars>>

(***************************************************************************)
(* Specifications.                                                         *)
(***************************************************************************)
Init == AppInit /\ EstimateIdle /\ CallsIdle

Next ==
  \/ SetArea
  \/ ClickCalculate
  \/ UploadVideo
  \/ RemoveVideo
  \/ ToggleShowBoxes
  \/ EndOfVideo
  \/ SkipFrame
  \/ ProcessFrame

Spec == Init /\ [][Next]_vars

InitEstimate ==
  /\ AppOff
  /\ CallsIdle
  /\ est_area \in EstAreas
  /\ est_result = None

NextEstimate == CallEstimate

SpecEstimate == InitEstimate /\ [][NextEstimate]_vars

InitCalls ==
  /\ AppOff
  /\ EstimateIdle
  /\ call_args \in AlertArgs
  /\ call_result = None
  /\ marked = None

NextCalls == FirstCall \/ NextCall

SpecCalls == InitCalls /\ [][NextCalls]_vars

(***************************************************************************)
(* Properties of estimate_venue_capacity, under SpecEstimate.              *)
(***************************************************************************)
Estimated == est_result # None

PositiveArea == est_area # None /\ est_area[1] > 0

\* n is the floor of a * num / den
IsFloorOf(n, a, num, den) == den * n <= a * num /\ a * num < den * (n + 1)

\* C2: for every area > 0 the estimator returns the area unchanged,
\* safe_capacity = floor(area * 0.4) and max_capacity = floor(area * 0.67);
\* area 500 gives 200 and 335.
C2_FloorOfAreaTimesDensity ==
  (Estimated /\ PositiveArea) =>
    /\ est_result.area = est_area[1]
    /\ IsFloorOf(est_result.safe_capacity, est_area[1], 4, 10)
    /\ IsFloorOf(est_result.max_capacity, est_area[1], 67, 100)
    /\ (est_area[1] = 500 =>
          est_result.safe_capacity = 200 /\ est_result.max_capacity = 335)

C2_Witness ==
  /\ Estimated
  /\ est_area = Some(57)
  /\ est_result = [area |-> 57, safe_capacity |-> 22, max_capacity |-> 38]

\* C3: an absent, zero or negative area does not fail and yields exactly
\* the result for area 500: area 500, safe_capacity 200, max_capacity 335.
C3_InvalidAreaFallsBackToDefault ==
  (Estimated /\ ~PositiveArea) =>
    est_result = [area |-> 500, safe_capacity |-> 200, max_capacity |-> 335]

C3_Witness ==
  /\ Estimated
  /\ est_area = Some(-10)
  /\ est_result.area = 500

\* C4: for every input area, positive, zero, negative or absent, the result
\* has integer capacities with 0 <= safe_capacity <= max_capacity.
C4_SafeAtMostMax ==
  Estimated =>
    /\ est_result.safe_capacity \in Int
    /\ est_result.max_capacity \in Int
    /\ 0 <= est_result.safe_capacity
    /\ est_result.safe_capacity <= est_result.max_capacity

C4_Witness ==
  /\ Estimated
  /\ PositiveArea
  /\ 0 < est_result.safe_capacity
  /\ est_result.safe_capacity < est_result.max_capacity

(***************************************************************************)
(* Properties of get_alert_status, under SpecCalls.                        *)
(***************************************************************************)
Returned == call_result # None

Hundred == [num |-> 100, den |-> 1]

\* C1: CRITICAL exactly when count >= max_capacity, WARNING exactly when
\* count < max_capacity and count >= safe_capacity, SAFE exactly when the
\* count is below both, whatever the order of the two capacities; both
\* thresholds are inclusive and CRITICAL wins when both conditions hold.
C1_ThresholdLadder ==
  Returned =>
    LET c == call_args.current_count
        s == call_args.safe_capacity
        m == call_args.max_capacity
        st == call_result.status
    IN /\ st \in {"SAFE", "WARNING", "CRITICAL"}
       /\ (st = "CRITICAL") <=> (c >= m)
       /\ (st = "WARNING") <=> (c < m /\ c >= s)
       /\ (st = "SAFE") <=> (c < m /\ c < s)

C1_Witness ==
  /\ Returned
  /\ call_args.current_count = call_args.max_capacity
  /\ call_args.current_count >= call_args.safe_capacity
  /\ call_args.max_capacity > 0
  /\ call_result.status = "CRITICAL"

\* C5: the call never fails; the percentage is 100 * count / max_capacity
\* when max_capacity > 0 and 0 when max_capacity = 0, in every status
\* branch; it is never negative, exceeds 100 when the count exceeds
\* max_capacity (400 of 335 is about 119.4) and is exactly 100 when the
\* count equals max_capacity > 0.
C5_PercentageOfMax ==
  Returned =>
    LET c == call_args.current_count
        m == call_args.max_capacity
        p == call_result.percentage
    IN /\ p.den > 0
       /\ (m > 0 => RatEq(p, [num |-> 100 * c, den |-> m]))
       /\ (m = 0 => RatEq(p, Zero))
       /\ RatLeq(Zero, p)
       /\ ((m > 0 /\ c > m) => ~RatLeq(p, Hundred))
       /\ ((m > 0 /\ c = m) => RatEq(p, Hundred))
       /\ ((c = 400 /\ m = 335) =>
             /\ RatLeq([num |-> 1194, den |-> 10], p)
             /\ RatLeq(p, [num |-> 1195, den |-> 10]))

C5_Witness ==
  /\ Returned
  /\ call_args.current_count = 400
  /\ call_args.max_capacity = 335
  /\ ~RatLeq(call_result.percentage, Hundred)

\* C6: with safe_capacity = max_capacity = 0 every count, 0 included, is
\* CRITICAL with percentage 0.
C6_ZeroCapacityIsCritical ==
  (Returned /\ call_args.safe_capacity = 0 /\ call_args.max_capacity = 0) =>
    /\ call_result.status = "CRITICAL"
    /\ RatEq(call_result.percentage, Zero)

C6_Witness ==
  /\ Returned
  /\ call_args = [current_count |-> 0, safe_capacity |-> 0, max_capacity |-> 0]
  /\ call_result.status = "CRITICAL"

\* the kept call and the last call were made with the same two capacities
SameCapacities ==
  /\ marked # None
  /\ Returned
  /\ marked.args.safe_capacity = call_args.safe_capacity
  /\ marked.args.max_capacity = call_args.max_capacity

\* C7: with the capacities fixed, ordered or not, a count that is not
\* smaller gets a percentage that is not smaller and a status that is not
\* lower in SAFE < WARNING < CRITICAL.
C7_Monotone ==
  SameCapacities =>
    /\ (marked.args.current_count <= call_args.current_count =>
          /\ RatLeq(marked.result.percentage, call_result.percentage)
          /\ Rank(marked.result.status) <= Rank(call_result.status))
    /\ (call_args.current_count <= marked.args.current_count =>
          /\ RatLeq(call_result.percentage, marked.result.percentage)
          /\ Rank(call_result.status) <= Rank(marked.result.status))

C7_Witness ==
  /\ SameCapacities
  /\ call_args.safe_capacity > call_args.max_capacity
  /\ marked.args.current_count < call_args.current_count
  /\ Rank(marked.result.status) < Rank(call_result.status)
  /\ ~RatLeq(call_result.percentage, marked.result.percentage)

\* the kept call and the last call have the counts x and y, in either order
CountsAre(x, y) ==
  \/ marked.args.current_count = x /\ call_args.current_count = y
  \/ marked.args.current_count = y /\ call_args.current_count = x

\* two calls with the same arguments return equal results, whatever was
\* called in between
SameArgumentsSameResult ==
  (marked # None /\ Returned /\ marked.args = call_args) =>
    marked.result = call_result

\* C8, as stated: each result is determined by the call's own arguments,
\* and a count alternating between safe_capacity - 1 and safe_capacity, or
\* between max_capacity - 1 and max_capacity, changes the status on every
\* call.
C8_FlickerAtEveryThreshold ==
  /\ SameArgumentsSameResult
  /\ SameCapacities =>
       /\ CountsAre(call_args.safe_capacity - 1, call_args.safe_capacity) =>
            marked.result.status # call_result.status
       /\ CountsAre(call_args.max_capacity - 1, call_args.max_capacity) =>
            marked.result.status # call_result.status

\* C8, amended: each result is determined by the call's own arguments; a
\* count alternating between max_capacity - 1 and max_capacity changes the
\* status on every call, and so does a count alternating between
\* safe_capacity - 1 and safe_capacity when safe_capacity <= max_capacity.
C8_FlickerAtOrderedThresholds ==
  /\ SameArgumentsSameResult
  /\ SameCapacities =>
       /\ (/\ call_args.safe_capacity <= call_args.max_capacity
           /\ CountsAre(call_args.safe_capacity - 1, call_args.safe_capacity))
          => marked.result.status # call_result.status
       /\ CountsAre(call_args.max_capacity - 1, call_args.max_capacity) =>
            marked.result.status # call_result.status

C8_Witness ==
  /\ SameCapacities
  /\ call_args.safe_capacity < call_args.max_capacity
  /\ marked.args.current_count = call_args.safe_capacity
  /\ call_args.current_count = call_args.safe_capacity - 1
  /\ marked.result.status = "WARNING"
  /\ call_result.status = "SAFE"

(***************************************************************************)
(* Properties of the frame loop, under Spec.                               *)
(***************************************************************************)
\* the step evaluates a frame on which the detection failed
FailedDetectionStep ==
  /\ Len(detection') = Len(detection) + 1
  /\ detection'[Len(detection')] = "failed"

\* C9: a failed detection counts as 0 people; the frame is evaluated as a
\* frame with nobody in it, SAFE whenever safe_capacity > 0, and the loop
\* goes on to the following frames.
C9_FailedDetectionCountsZero ==
  [][FailedDetectionStep =>
       /\ count' = 0
       /\ alert' # None
       /\ alert'.status =
            (IF 0 >= max_cap THEN "CRITICAL"
             ELSE IF 0 >= safe THEN "WARNING" ELSE "SAFE")
       /\ RatEq(alert'.percentage, Zero)
       /\ (safe > 0 => alert'.status = "SAFE")
       /\ shown'.count = 0
       /\ pc' = "loop"
       /\ frame_count' = frame_count + 1
       /\ frame_count' <= total_frames]_vars

C9_Witness ==
  /\ detection = <<"failed", "ok">>
  /\ frame_count = 4
  /\ count > 0

\* C10: no frame is evaluated before a capacity is stored, and every call
\* of a run passes the safe_capacity and max_capacity of the stored
\* capacity, the same for all frames of the video.
C10_ThresholdsFixedPerVideo ==
  [][last_call' # None =>
       /\ capacity # None
       /\ capacity' = capacity
       /\ last_call'.safe_capacity = capacity.safe_capacity
       /\ last_call'.max_capacity = capacity.max_capacity
       /\ (last_call # None =>
             /\ last_call'.safe_capacity = last_call.safe_capacity
             /\ last_call'.max_capacity = last_call.max_capacity)]_vars

C10_Witness ==
  /\ Len(detection) = 2
  /\ last_call # None
  /\ capacity # None
  /\ capacity.area # area
  /\ last_call.safe_capacity = capacity.safe_capacity

====
